---- MODULE Spec2Model ----
(***************************************************************************)
(* Model of the homework crate: hash_table/growable_array.rs               *)
(* (GrowableArray::get, Drop), hello_server/cache.rs                       *)
(* (Cache::get_or_insert_with), list_set/fine_grained.rs                   *)
(* (FineGrainedListSet) and the Arc that tests/arc.rs exercises.           *)
(*                                                                         *)
(* Pointers are integers: 0 is the null pointer, 1..MaxSegments are the    *)
(* Segment allocations in allocation order, negative numbers are memory    *)
(* that is not a Segment (an element of the collaborator, or a wild        *)
(* address).  A cell is <<object, index>>; <<0, 0>> is the root field.     *)
(*                                                                         *)
(* get is declared with &mut self, yet built on atomic loads and           *)
(* compare_exchange for callers that run concurrently: each action is one  *)
(* atomic access of the body with the thread-local code around it.  A      *)
(* thread that panicked makes no further call.                             *)
(***************************************************************************)
EXTENDS Integers, Sequences, FiniteSets, TLC

\* ------------------------------------------------------------------ bounds
NumThreads == 2
MaxCalls == 3
MaxSegments == 3
NumCallers == 3

\* --------------------------------------------------------------- constants
SEGMENT_LOGSIZE == 10
DocLogSize == 3

VARIABLES
    logsize,        \* the value SEGMENT_LOGSIZE is compiled with
    root,           \* GrowableArray.root
    height,         \* GrowableArray.height
    cells,          \* non-null cells of the allocated segments
    nextSeg,        \* next Segment allocation
    links,          \* history: <<cell, segment>> of every successful compare_exchange
    discarded,      \* <<cell, segment>>: Owned segments dropped without being linked
    clobbered,      \* cells outside any Segment that a compare_exchange wrote
    log,            \* history: the calls that ended, in order: [index, slot, outcome]
    overlapped,     \* history: some call started while another was running
    calls,          \* number of calls of get started
    arrayState,     \* "live", or the outcome of Drop
    freed,          \* segments freed by Drop
    pc, index, current_index, parent, current_shared

arrayVars == <<logsize, root, height, cells, nextSeg, links, discarded, clobbered,
               log, overlapped, calls, arrayState, freed,
               pc, index, current_index, parent, current_shared>>

VARIABLES
    map,            \* Cache.inner: key -> the Arc<Mutex<Option<V>>> stored (0: no entry)
    readers,        \* threads holding inner's read lock
    writer,         \* thread holding inner's write lock (0: none)
    mutexes,        \* the Mutex<Option<V>> allocated: [holder, value] (0: free, None)
    fRuns,          \* history: key -> number of times f was called for it
    returns,        \* history: <<key, value>> of every return
    ccalls,         \* number of calls of get_or_insert_with started
    cpc, ckey, cvc  \* per thread: position, key, the value lock it works on

cacheVars == <<map, readers, writer, mutexes, fRuns, returns, ccalls, cpc, ckey, cvc>>

VARIABLES
    head,           \* FineGrainedListSet.head: the first node (0: null)
    nodes,          \* the Nodes allocated, in order: [data, next]; node n is nodes[n]
    holder,         \* mutex -> thread holding it (0: free); mutex 0 is head,
                    \* mutex n is nodes[n].next
    poisoned,       \* head was locked by a thread that panicked
    history,        \* history: the calls that returned, in order: [op, key, result]
    lcalls,         \* number of calls on the list set started
    lpc, lop, lkey, \* per thread: position, operation, key
    cursor          \* per thread: the mutex whose guard is Cursor.0

listVars == <<head, nodes, holder, poisoned, history, lcalls, lpc, lop, lkey, cursor>>

VARIABLES
    count,          \* the reference count shared by the handles
    handles,        \* thread -> number of handles it owns
    canary,         \* number of times the value was dropped
    clones,         \* number of clones made
    apc             \* per thread: "idle", or "drop_value" after the last decrement

arcVars == <<count, handles, canary, clones, apc>>

vars == <<arrayVars, cacheVars, listVars, arcVars>>

\* what the operations of one structure leave alone: the other structures
besidesArray == <<cacheVars, listVars, arcVars>>
besidesCache == <<arrayVars, listVars, arcVars>>
besidesList == <<arrayVars, cacheVars, arcVars>>
besidesArc == <<arrayVars, cacheVars, listVars>>

Threads == 1..NumThreads
Null == 0
SegPtrs == 1..MaxSegments
\* the elements the collaborator owns, and an address that is no object
Elems == {1}
ElemPtrs == {0 - e : e \in Elems}
Wild == 0 - 2
RootCell == <<0, 0>>
NoCell == <<0, 1>>

\* 1 << SEGMENT_LOGSIZE, the length of a Segment's array
RECURSIVE Pow2(_)
Pow2(n) == IF n = 0 THEN 1 ELSE 2 * Pow2(n - 1)
SegmentSize == Pow2(logsize)

\* the indices the callers use: those of the documented run for its segment
\* size, else two within the first segment and the first one past it
Indices == IF logsize = DocLogSize THEN {1, 6, 59} ELSE {1, 59, SegmentSize}
IndexUniverse == {1, 6, 59, Pow2(SEGMENT_LOGSIZE)}

\* Atomic::load on the root field or on a cell of a Segment (zeroed when new)
Load(c) ==
    IF c = RootCell THEN root
    ELSE IF c \in DOMAIN cells THEN cells[c] ELSE Null

\* a cell that lies in a Segment (or is the root field), not in foreign memory
InTree(c) == c[1] >= 0

published == {l[2] : l \in {m \in links : InTree(m[1])}}

\* what a word of memory that is no Segment may hold when read as a pointer
Garbage == {Null, Wild} \cup published

SetCell(c, v) ==
    [k \in DOMAIN cells \cup {c} |-> IF k = c THEN v ELSE cells[k]]

\* let new_node = Segment::new(): the segment the running step allocates
new_node == nextSeg

\* the call of thread t ends with outcome o ("ok", or the panic) and slot c
EndCall(t, o, c) ==
    /\ log' = Append(log, [index |-> index[t], slot |-> c, outcome |-> o])
    /\ pc' = [pc EXCEPT ![t] = IF o = "ok" THEN "idle" ELSE o]
    /\ index' = [index EXCEPT ![t] = 0]
    /\ current_index' = [current_index EXCEPT ![t] = 0]
    /\ parent' = [parent EXCEPT ![t] = NoCell]
    /\ current_shared' = [current_shared EXCEPT ![t] = Null]

InitArray(b) ==
    /\ logsize = b
    /\ root = Null
    /\ height = 0
    /\ cells = << >>
    /\ nextSeg = 1
    /\ links = {}
    /\ discarded = {}
    /\ clobbered = {}
    /\ log = << >>
    /\ overlapped = FALSE
    /\ calls = 0
    /\ arrayState = "live"
    /\ freed = {}
    /\ pc = [t \in Threads |-> "idle"]
    /\ index = [t \in Threads |-> 0]
    /\ current_index = [t \in Threads |-> 0]
    /\ parent = [t \in Threads |-> NoCell]
    /\ current_shared = [t \in Threads |-> Null]

\* get, lines 196-199: the call and the load of the root
GetStart(t, i) ==
    /\ UNCHANGED besidesArray
    /\ arrayState = "live"
    /\ pc[t] = "idle"
    /\ i \in Indices
    /\ calls < MaxCalls
    /\ calls' = calls + 1
    /\ overlapped' = (overlapped \/ \E u \in Threads : pc[u] = "loop")
    /\ index' = [index EXCEPT ![t] = i]
    /\ current_index' = [current_index EXCEPT ![t] = i]
    /\ parent' = [parent EXCEPT ![t] = RootCell]
    /\ current_shared' = [current_shared EXCEPT ![t] = Load(RootCell)]
    /\ pc' = [pc EXCEPT ![t] = "loop"]
    /\ UNCHANGED <<logsize, root, height, cells, nextSeg, links, discarded, clobbered,
                   log, arrayState, freed>>

\* get, lines 208-213: the compare_exchange succeeded; the slot of the new
\* segment is returned, after the bounds check of elements[current_index]
CasOkWith(t, h) ==
    /\ height' = h
    /\ links' = links \cup {<<parent[t], new_node>>}
    /\ IF parent[t] = RootCell
         THEN root' = new_node /\ UNCHANGED <<cells, clobbered>>
         ELSE IF InTree(parent[t])
           THEN cells' = SetCell(parent[t], new_node) /\ UNCHANGED <<root, clobbered>>
           ELSE clobbered' = clobbered \cup {parent[t]} /\ UNCHANGED <<root, cells>>
    /\ IF current_index[t] < SegmentSize
         THEN EndCall(t, "ok", <<new_node, current_index[t]>>)
         ELSE EndCall(t, "panic_bounds", NoCell)
    /\ UNCHANGED <<logsize, discarded, overlapped, calls, arrayState, freed>>

\* the least height whose (height + 1) * SEGMENT_LOGSIZE bits hold index i
RECURSIVE RequiredHeight(_)
RequiredHeight(i) == IF i < SegmentSize THEN 0 ELSE 1 + RequiredHeight(i \div SegmentSize)

\* a get that assigned the height its index needs, whatever the height was
CasOkSetsHeight(t) == CasOkWith(t, RequiredHeight(index[t]))

\* get never assigns self.height
CasOk(t) == CasOkWith(t, height)

\* a loser that drops its segment and still returns the slot in it
CasErrReturnsOwn(t) ==
    /\ discarded' = discarded \cup {<<parent[t], new_node>>}
    /\ EndCall(t, "ok", <<new_node, current_index[t]>>)
    /\ UNCHANGED <<logsize, root, height, cells, links, clobbered,
                   overlapped, calls, arrayState, freed>>

\* get, lines 214-216: the compare_exchange failed; panic!, and the unwinding
\* drops the Owned segment the error carries
CasErr(t) ==
    /\ discarded' = discarded \cup {<<parent[t], new_node>>}
    /\ EndCall(t, "panic_cas", NoCell)
    /\ UNCHANGED <<logsize, root, height, cells, links, clobbered,
                   overlapped, calls, arrayState, freed>>

\* a plain store in place of the compare_exchange
GetCasStore(t) ==
    /\ UNCHANGED besidesArray
    /\ pc[t] = "loop"
    /\ current_shared[t] = Null
    /\ nextSeg <= MaxSegments
    /\ nextSeg' = nextSeg + 1
    /\ CasOk(t)

\* get, lines 203-217: current_node is None; Segment::new(), which no other
\* thread sees, then parent.compare_exchange(current_shared, new_node).  On a
\* cell of foreign memory the current value is whatever that memory holds.
GetCas(t) ==
    /\ UNCHANGED besidesArray
    /\ pc[t] = "loop"
    /\ current_shared[t] = Null
    /\ nextSeg <= MaxSegments
    /\ nextSeg' = nextSeg + 1
    /\ IF InTree(parent[t])
         THEN IF Load(parent[t]) = current_shared[t] THEN CasOk(t) ELSE CasErr(t)
         ELSE CasOk(t) \/ CasErr(t)

\* the leaf case that lines 221-222 leave commented out, taken for every
\* segment found and with the index cut to its lowest bit
GetDescendLowBit(t) ==
    /\ UNCHANGED besidesArray
    /\ pc[t] = "loop"
    /\ current_shared[t] # Null
    /\ EndCall(t, "ok", <<current_shared[t], current_index[t] % 2>>)
    /\ UNCHANGED <<logsize, root, height, cells, nextSeg, links, discarded, clobbered,
                   overlapped, calls, arrayState, freed>>

\* get, lines 220-228: current_node is Some(node); step to children[current_index]
GetDescend(t) ==
    /\ UNCHANGED besidesArray
    /\ pc[t] = "loop"
    /\ current_shared[t] # Null
    /\ IF current_index[t] >= SegmentSize
         THEN EndCall(t, "panic_bounds", NoCell)
         ELSE LET cell == <<current_shared[t], current_index[t]>> IN
              IF current_shared[t] \in SegPtrs
                THEN /\ parent' = [parent EXCEPT ![t] = cell]
                     /\ current_shared' = [current_shared EXCEPT ![t] = Load(cell)]
                     /\ UNCHANGED <<log, pc, index, current_index>>
                ELSE \* node is not a Segment: the read is undefined behaviour
                     \/ EndCall(t, "fault", NoCell)
                     \/ \E v \in Garbage :
                        /\ parent' = [parent EXCEPT ![t] = cell]
                        /\ current_shared' = [current_shared EXCEPT ![t] = v]
                        /\ UNCHANGED <<log, pc, index, current_index>>
    /\ UNCHANGED <<logsize, root, height, cells, nextSeg, links, discarded, clobbered,
                   overlapped, calls, arrayState, freed>>

\* the collaborator publishes an element in a slot it was given:
\* compare-and-swap of the slot from null to the element
Store(n, e) ==
    /\ UNCHANGED besidesArray
    /\ arrayState = "live"
    /\ n \in 1..Len(log)
    /\ log[n].outcome = "ok"
    /\ Load(log[n].slot) = Null
    /\ cells' = SetCell(log[n].slot, 0 - e)
    /\ UNCHANGED <<logsize, root, height, nextSeg, links, discarded, clobbered,
                   log, overlapped, calls, arrayState, freed,
                   pc, index, current_index, parent, current_shared>>

\* Drop for GrowableArray, lines 171-173: todo!()
Drop ==
    /\ UNCHANGED besidesArray
    /\ arrayState = "live"
    /\ \A t \in Threads : pc[t] # "loop"
    /\ arrayState' = "drop_panicked"
    /\ freed' = freed
    /\ UNCHANGED <<logsize, root, height, cells, nextSeg, links, discarded, clobbered,
                   log, overlapped, calls, pc, index, current_index, parent, current_shared>>

\* -------------------------------------------------------------------- Cache
Keys == {1, 2}

\* the threads that call get_or_insert_with on the one Cache
Callers == 1..NumCallers

InitCache ==
    /\ map = [k \in Keys |-> 0]
    /\ readers = {}
    /\ writer = 0
    /\ mutexes = << >>
    /\ fRuns = [k \in Keys |-> 0]
    /\ returns = {}
    /\ ccalls = 0
    /\ cpc = [t \in Callers |-> "idle"]
    /\ ckey = [t \in Callers |-> 0]
    /\ cvc = [t \in Callers |-> 0]

\* the call returns v: its guards are dropped with its locals
CacheReturn(t, v) ==
    /\ returns' = returns \cup {<<ckey[t], v>>}
    /\ cpc' = [cpc EXCEPT ![t] = "idle"]
    /\ ckey' = [ckey EXCEPT ![t] = 0]
    /\ cvc' = [cvc EXCEPT ![t] = 0]

\* get_or_insert_with, line 39: a caller invokes it with a key
CacheCall(t, k) ==
    /\ UNCHANGED besidesCache
    /\ cpc[t] = "idle"
    /\ ccalls < MaxCalls
    /\ ccalls' = ccalls + 1
    /\ ckey' = [ckey EXCEPT ![t] = k]
    /\ cpc' = [cpc EXCEPT ![t] = "rlock"]
    /\ UNCHANGED <<map, readers, writer, mutexes, fRuns, returns, cvc>>

\* get_or_insert_with, lines 40-42: self.inner.read()
CacheRead(t) ==
    /\ UNCHANGED besidesCache
    /\ cpc[t] = "rlock"
    /\ writer = 0
    /\ readers' = readers \cup {t}
    /\ cpc' = [cpc EXCEPT ![t] = "reading"]
    /\ UNCHANGED <<map, writer, mutexes, fRuns, returns, ccalls, ckey, cvc>>

\* lines 43-45 and 52-54: inner_read.get(&key), then drop(inner_read)
CacheLookup(t) ==
    /\ UNCHANGED besidesCache
    /\ cpc[t] = "reading"
    /\ readers' = readers \ {t}
    /\ IF map[ckey[t]] # 0
         THEN /\ cvc' = [cvc EXCEPT ![t] = map[ckey[t]]]
              /\ cpc' = [cpc EXCEPT ![t] = "lock1"]
         ELSE /\ cvc' = cvc
              /\ cpc' = [cpc EXCEPT ![t] = "wlock"]
    /\ UNCHANGED <<map, writer, mutexes, fRuns, returns, ccalls, ckey>>

\* lines 46-51: vc.lock(); a stored value is returned, else the guard is dropped
CacheLock1(t) ==
    /\ UNCHANGED besidesCache
    /\ cpc[t] = "lock1"
    /\ mutexes[cvc[t]].holder = 0
    /\ IF mutexes[cvc[t]].value # 0
         THEN /\ CacheReturn(t, mutexes[cvc[t]].value)
         ELSE /\ cpc' = [cpc EXCEPT ![t] = "wlock"]
              /\ cvc' = [cvc EXCEPT ![t] = 0]
              /\ UNCHANGED <<returns, ckey>>
    /\ UNCHANGED <<map, readers, writer, mutexes, fRuns, ccalls>>

\* the write lock taken without looking the key up again
CacheWLockNoRecheck(t) ==
    /\ UNCHANGED besidesCache
    /\ cpc[t] = "wlock"
    /\ writer = 0 /\ readers = {}
    /\ writer' = t
    /\ cpc' = [cpc EXCEPT ![t] = "insert"]
    /\ UNCHANGED <<map, readers, mutexes, fRuns, returns, ccalls, ckey, cvc>>

\* lines 57-59: self.inner.write(), then inner_write.entry(key): Occupied or not
CacheWLock(t) ==
    /\ UNCHANGED besidesCache
    /\ cpc[t] = "wlock"
    /\ writer = 0 /\ readers = {}
    /\ writer' = t
    /\ IF map[ckey[t]] # 0
         THEN /\ cvc' = [cvc EXCEPT ![t] = map[ckey[t]]]
              /\ cpc' = [cpc EXCEPT ![t] = "lock2"]
         ELSE /\ cvc' = cvc
              /\ cpc' = [cpc EXCEPT ![t] = "insert"]
    /\ UNCHANGED <<map, readers, mutexes, fRuns, returns, ccalls, ckey>>

\* lines 60-65: value_lock.lock() with the write lock held; a stored value is
\* returned (both guards dropped), else the value guard is dropped
CacheLock2(t) ==
    /\ UNCHANGED besidesCache
    /\ cpc[t] = "lock2"
    /\ mutexes[cvc[t]].holder = 0
    /\ IF mutexes[cvc[t]].value # 0
         THEN /\ CacheReturn(t, mutexes[cvc[t]].value)
              /\ writer' = 0
         ELSE /\ cpc' = [cpc EXCEPT ![t] = "insert"]
              /\ cvc' = [cvc EXCEPT ![t] = 0]
              /\ UNCHANGED <<returns, ckey, writer>>
    /\ UNCHANGED <<map, readers, mutexes, fRuns, ccalls>>

\* the new value lock is inserted unlocked, so that f runs without its guard
CacheInsertUnlocked(t) ==
    /\ UNCHANGED besidesCache
    /\ cpc[t] = "insert"
    /\ mutexes' = Append(mutexes, [holder |-> 0, value |-> 0])
    /\ map' = [map EXCEPT ![ckey[t]] = Len(mutexes) + 1]
    /\ cvc' = [cvc EXCEPT ![t] = Len(mutexes) + 1]
    /\ writer' = 0
    /\ fRuns' = [fRuns EXCEPT ![ckey[t]] = @ + 1]
    /\ cpc' = [cpc EXCEPT ![t] = "in_f"]
    /\ UNCHANGED <<readers, returns, ccalls, ckey>>

\* lines 66-71: a new value lock is inserted for the key and locked, the write
\* lock is dropped and f is called
CacheInsert(t) ==
    /\ UNCHANGED besidesCache
    /\ cpc[t] = "insert"
    /\ mutexes' = Append(mutexes, [holder |-> t, value |-> 0])
    /\ map' = [map EXCEPT ![ckey[t]] = Len(mutexes) + 1]
    /\ cvc' = [cvc EXCEPT ![t] = Len(mutexes) + 1]
    /\ writer' = 0
    /\ fRuns' = [fRuns EXCEPT ![ckey[t]] = @ + 1]
    /\ cpc' = [cpc EXCEPT ![t] = "in_f"]
    /\ UNCHANGED <<readers, returns, ccalls, ckey>>

\* the value f(key) yields: the key and the run of f that made it
FValue(k) == 10 * k + fRuns[k]

\* f returns and the value is stored, but the guard of the value lock is
\* leaked instead of dropped
CacheFinishKeepsLock(t) ==
    /\ UNCHANGED besidesCache
    /\ cpc[t] = "in_f"
    /\ mutexes' = [mutexes EXCEPT ![cvc[t]] = [holder |-> t, value |-> FValue(ckey[t])]]
    /\ CacheReturn(t, FValue(ckey[t]))
    /\ UNCHANGED <<map, readers, writer, fRuns, ccalls>>

\* lines 71-73: f returns, the value is stored and returned, the guard dropped
CacheFinish(t) ==
    /\ UNCHANGED besidesCache
    /\ cpc[t] = "in_f"
    /\ mutexes' = [mutexes EXCEPT ![cvc[t]] = [holder |-> 0, value |-> FValue(ckey[t])]]
    /\ CacheReturn(t, FValue(ckey[t]))
    /\ UNCHANGED <<map, readers, writer, fRuns, ccalls>>

\* ------------------------------------------------------- FineGrainedListSet
LKeys == {1, 2, 3}
Ops == {"contains", "insert", "remove"}
\* head, and the next of every Node the calls can allocate
Mutexes == 0..MaxCalls

\* the pointer a mutex guards
Ptr(m) == IF m = 0 THEN head ELSE nodes[m].next

\* every guard of the thread is dropped
Unlock(h, t) == [m \in Mutexes |-> IF h[m] = t THEN 0 ELSE h[m]]

\* FineGrainedListSet::new, lines 80-84
InitList ==
    /\ head = 0
    /\ nodes = << >>
    /\ holder = [m \in Mutexes |-> 0]
    /\ poisoned = FALSE
    /\ history = << >>
    /\ lcalls = 0
    /\ lpc = [t \in Threads |-> "idle"]
    /\ lop = [t \in Threads |-> "none"]
    /\ lkey = [t \in Threads |-> 0]
    /\ cursor = [t \in Threads |-> 0]

\* a call of contains, insert or remove begins
ListCall(t, o, k) ==
    /\ UNCHANGED besidesList
    /\ lpc[t] = "idle"
    /\ lcalls < MaxCalls
    /\ lcalls' = lcalls + 1
    /\ lop' = [lop EXCEPT ![t] = o]
    /\ lkey' = [lkey EXCEPT ![t] = k]
    /\ lpc' = [lpc EXCEPT ![t] = IF o = "remove" THEN "remove_lock" ELSE "find_lock"]
    /\ UNCHANGED <<head, nodes, holder, poisoned, history, cursor>>

\* the call returns r; its guards are dropped with its locals
ListReturn(t, r) ==
    /\ history' = Append(history, [op |-> lop[t], key |-> lkey[t], result |-> r])
    /\ holder' = Unlock(holder, t)
    /\ lpc' = [lpc EXCEPT ![t] = "idle"]
    /\ lop' = [lop EXCEPT ![t] = "none"]
    /\ lkey' = [lkey EXCEPT ![t] = 0]
    /\ cursor' = [cursor EXCEPT ![t] = 0]

\* find returned (found, Cursor(guard of m)) to contains (line 97) or to insert
\* (lines 101-104, 110-117): an insert that found a node under the cursor goes
\* on to lock its next
AfterFind(t, found, m) ==
    IF lop[t] = "insert" /\ ~found
      THEN IF Ptr(m) = 0
             THEN /\ nodes' = Append(nodes, [data |-> lkey[t], next |-> 0])
                  /\ head' = Len(nodes) + 1
                  /\ ListReturn(t, TRUE)
             ELSE /\ holder' = [Unlock(holder, t) EXCEPT ![m] = t]
                  /\ cursor' = [cursor EXCEPT ![t] = m]
                  /\ lpc' = [lpc EXCEPT ![t] = "insert_lock"]
                  /\ UNCHANGED <<head, nodes, history, lop, lkey>>
      ELSE /\ ListReturn(t, IF lop[t] = "insert" THEN FALSE ELSE found)
           /\ UNCHANGED <<head, nodes>>

\* lock().unwrap() on a poisoned mutex panics; the thread holds no guard
PoisonPanic(t) ==
    /\ lpc' = [lpc EXCEPT ![t] = "panicked"]
    /\ UNCHANGED <<head, nodes, holder, history, lop, lkey, cursor>>

\* find, line 89: self.head.lock(); Cursor::find, lines 49-53: no first node,
\* or the first node holds the key, or on to first_node.next
FindLockHead(t) ==
    /\ UNCHANGED besidesList
    /\ lpc[t] = "find_lock"
    /\ holder[0] = 0
    /\ IF poisoned
         THEN PoisonPanic(t)
         ELSE IF head = 0
                THEN AfterFind(t, FALSE, 0)
                ELSE IF lkey[t] = nodes[head].data
                       THEN AfterFind(t, TRUE, 0)
                       ELSE /\ holder' = [holder EXCEPT ![0] = t]
                            /\ cursor' = [cursor EXCEPT ![t] = 0]
                            /\ lpc' = [lpc EXCEPT ![t] = "next_lock"]
                            /\ UNCHANGED <<head, nodes, history, lop, lkey>>
    /\ UNCHANGED <<poisoned, lcalls>>

\* Cursor::find, lines 54 and 65: the next of the node under the cursor is
\* locked; lines 55-72: the key is compared with the node after it.  On Less
\* the cursor moves on (self.0 = next drops the guard it held); on Equal, on
\* Greater and at the end of the list the guard next is dropped.
FindLockNext(t) ==
    /\ UNCHANGED besidesList
    /\ lpc[t] = "next_lock"
    /\ LET node == Ptr(cursor[t])
           next == nodes[node].next
       IN  /\ holder[node] = 0
           /\ IF next = 0
                THEN AfterFind(t, FALSE, cursor[t])
                ELSE IF lkey[t] = nodes[next].data
                       THEN AfterFind(t, TRUE, cursor[t])
                       ELSE IF lkey[t] < nodes[next].data
                              THEN /\ holder' = [holder EXCEPT ![cursor[t]] = 0, ![node] = t]
                                   /\ cursor' = [cursor EXCEPT ![t] = node]
                                   /\ UNCHANGED <<head, nodes, history, lpc, lop, lkey>>
                              ELSE AfterFind(t, FALSE, cursor[t])
    /\ UNCHANGED <<poisoned, lcalls>>

\* insert, lines 105-109 and 115: prev.next.lock(); the new node takes prev's
\* next and becomes prev's next
InsertLockNext(t) ==
    /\ UNCHANGED besidesList
    /\ lpc[t] = "insert_lock"
    /\ LET prev == Ptr(cursor[t])
       IN  /\ holder[prev] = 0
           /\ nodes' = Append([nodes EXCEPT ![prev].next = Len(nodes) + 1],
                              [data |-> lkey[t], next |-> nodes[prev].next])
    /\ ListReturn(t, TRUE)
    /\ UNCHANGED <<head, poisoned, lcalls>>

\* remove, lines 121-126: self.head.lock(), kept in first to the end of remove;
\* false on an empty list
RemoveLockHead(t) ==
    /\ UNCHANGED besidesList
    /\ lpc[t] = "remove_lock"
    /\ holder[0] = 0
    /\ IF poisoned
         THEN PoisonPanic(t)
         ELSE IF head = 0
                THEN /\ ListReturn(t, FALSE)
                     /\ UNCHANGED <<head, nodes>>
                ELSE /\ holder' = [holder EXCEPT ![0] = t]
                     /\ lpc' = [lpc EXCEPT ![t] = "relock"]
                     /\ UNCHANGED <<head, nodes, history, lop, lkey, cursor>>
    /\ UNCHANGED <<poisoned, lcalls>>

\* remove, line 127: self.find locks head (line 89), which this thread holds
\* in first.  std::sync::Mutex leaves that unspecified but never returns: the
\* thread blocks for ever, or panics, and the unwinding drops first and
\* poisons head.  Lines 128-140 are never reached.
RemoveFind(t) ==
    /\ UNCHANGED besidesList
    /\ lpc[t] = "relock"
    /\ \/ /\ lpc' = [lpc EXCEPT ![t] = "deadlocked"]
          /\ UNCHANGED <<holder, poisoned>>
       \/ /\ lpc' = [lpc EXCEPT ![t] = "panicked"]
          /\ holder' = Unlock(holder, t)
          /\ poisoned' = TRUE
    /\ UNCHANGED <<head, nodes, history, lcalls, lop, lkey, cursor>>

NextList ==
    \/ \E t \in Threads, o \in Ops, k \in LKeys : ListCall(t, o, k)
    \/ \E t \in Threads : FindLockHead(t)
    \/ \E t \in Threads : FindLockNext(t)
    \/ \E t \in Threads : InsertLockNext(t)
    \/ \E t \in Threads : RemoveLockHead(t)
    \/ \E t \in Threads : RemoveFind(t)

\* ---------------------------------------------------------------------- Arc
\* the threads that own handles to the one Arc
Owners == 1..NumCallers

\* Arc::new, and a handle moved to every thread (tests/arc.rs, lines 255-258)
InitArc ==
    /\ count = NumCallers
    /\ handles = [t \in Owners |-> 1]
    /\ canary = 0
    /\ clones = 0
    /\ apc = [t \in Owners |-> "idle"]

\* Arc::clone: the count is incremented in one atomic step and a new handle
\* to the same value is made
ArcClone(t) ==
    /\ UNCHANGED besidesArc
    /\ apc[t] = "idle"
    /\ handles[t] > 0
    /\ clones < MaxCalls
    /\ clones' = clones + 1
    /\ count' = count + 1
    /\ handles' = [handles EXCEPT ![t] = @ + 1]
    /\ UNCHANGED <<canary, apc>>

\* the value is dropped by the handle whose decrement found the count at 2 or less
ArcDropEarly(t) ==
    /\ UNCHANGED besidesArc
    /\ apc[t] = "idle"
    /\ handles[t] > 0
    /\ handles' = [handles EXCEPT ![t] = @ - 1]
    /\ count' = count - 1
    /\ apc' = [apc EXCEPT ![t] = IF count <= 2 THEN "drop_value" ELSE "idle"]
    /\ UNCHANGED <<canary, clones>>

\* Drop for Arc: the count is decremented in one atomic step; the handle that
\* found it at 1 was the last and goes on to drop the value
ArcDrop(t) ==
    /\ UNCHANGED besidesArc
    /\ apc[t] = "idle"
    /\ handles[t] > 0
    /\ handles' = [handles EXCEPT ![t] = @ - 1]
    /\ count' = count - 1
    /\ apc' = [apc EXCEPT ![t] = IF count = 1 THEN "drop_value" ELSE "idle"]
    /\ UNCHANGED <<canary, clones>>

\* Drop for Arc, last handle: the value is dropped (Canary::drop, lines 10-14)
ArcDropValue(t) ==
    /\ UNCHANGED besidesArc
    /\ apc[t] = "drop_value"
    /\ canary' = canary + 1
    /\ apc' = [apc EXCEPT ![t] = "idle"]
    /\ UNCHANGED <<count, handles, clones>>

NextArc ==
    \/ \E t \in Owners : ArcClone(t)
    \/ \E t \in Owners : ArcDrop(t)
    \/ \E t \in Owners : ArcDropValue(t)

Init == InitArray(SEGMENT_LOGSIZE) /\ InitCache /\ InitList /\ InitArc

Next ==
    \/ \E t \in Threads, i \in IndexUniverse : GetStart(t, i)
    \/ \E t \in Threads : GetCas(t)
    \/ \E t \in Threads : GetDescend(t)
    \/ \E n \in 1..MaxCalls, e \in Elems : Store(n, e)
    \/ Drop

Spec == Init /\ [][Next]_vars

\* the array of the documented example run: "Suppose SEGMENT_LOGSIZE = 3"
InitDoc == InitArray(DocLogSize) /\ InitCache /\ InitList /\ InitArc

SpecDoc == InitDoc /\ [][Next]_vars

NextCache ==
    \/ \E t \in Callers, k \in Keys : CacheCall(t, k)
    \/ \E t \in Callers : CacheRead(t)
    \/ \E t \in Callers : CacheLookup(t)
    \/ \E t \in Callers : CacheLock1(t)
    \/ \E t \in Callers : CacheWLock(t)
    \/ \E t \in Callers : CacheLock2(t)
    \/ \E t \in Callers : CacheInsert(t)
    \/ \E t \in Callers : CacheFinish(t)

SpecCache == Init /\ [][NextCache]_vars

\* the steps of an invocation in progress
CacheStep(t) ==
    \/ CacheRead(t)
    \/ CacheLookup(t)
    \/ CacheLock1(t)
    \/ CacheWLock(t)
    \/ CacheLock2(t)
    \/ CacheInsert(t)
    \/ CacheFinish(t)

\* every thread keeps being scheduled, a thread that can take a lock for as
\* long as it waits gets it, and every closure f terminates
SpecCacheFair == SpecCache /\ \A t \in Callers : WF_vars(CacheStep(t))

SpecList == Init /\ [][NextList]_vars

SpecArc == Init /\ [][NextArc]_vars

\* ------------------------------------------------------------ GrowableArray
Quiescent == \A t \in Threads : pc[t] # "loop"
\* the calls that returned
Returned == {n \in 1..Len(log) : log[n].outcome = "ok"}
\* the indices of the calls that ended, by returning or by panicking
UsedIndices == {log[n].index : n \in 1..Len(log)}
MaxOf(S) == CHOOSE m \in S : \A x \in S : x <= m

\* C1: all the calls of get with one index return the same cell.
C1_SameSlot ==
    \A m, n \in Returned : log[m].index = log[n].index => log[m].slot = log[n].slot

\* C2: when the calls made so far have ended, the height is the least one that
\* addresses the largest index used: 2^((height+1)*B) > max, and 2^(height*B) <= max
\* unless height is 0.
C2_HeightMinimal ==
    (Quiescent /\ UsedIndices # {}) =>
        LET m == MaxOf(UsedIndices) IN
        /\ Pow2((height + 1) * logsize) > m
        /\ height > 0 => Pow2(height * logsize) <= m

\* C3: a call whose compare_exchange lost the race does not panic.
C3_LostRaceAbsorbed == \A t \in Threads : pc[t] # "panic_cas"

\* C4: no call of get, whatever its index, ends in an out-of-range failure.
C4_NoOutOfRange == \A t \in Threads : pc[t] # "panic_bounds"

\* C5: a cell of the tree gets at most one segment linked into it; a candidate
\* that lost is dropped without ever being linked, and no thread holds, reads or
\* returns a cell of a dropped candidate.
C5_OneSegmentPerCell ==
    LET dropped == {d[2] : d \in discarded} IN
    /\ \A k, l \in links : (InTree(k[1]) /\ k[1] = l[1]) => k[2] = l[2]
    /\ \A l \in links : l[2] \notin dropped
    /\ root \notin dropped
    /\ \A c \in DOMAIN cells : cells[c] \notin dropped
    /\ \A t \in Threads : current_shared[t] \notin dropped /\ parent[t][1] \notin dropped
    /\ \A n \in Returned : log[n].slot[1] \notin dropped

\* C5 witness: two threads raced for one cell of the tree, one linked its
\* segment there and the other dropped its candidate.
C5_Witness ==
    \E d \in discarded, l \in links : InTree(d[1]) /\ d[1] = l[1] /\ Load(d[1]) = l[2]

\* C6: the height never decreases.
C6_HeightMonotonic == [][height' >= height]_vars

\* C6 witness: several calls, one of them a call that linked below the root,
\* have acted on the array.
C6_Witness == Cardinality(Returned) >= 2 /\ \E l \in links : l[1] # RootCell

\* the segments reachable from the root through the cells
RECURSIVE ReachFrom(_, _)
ReachFrom(S, n) ==
    IF n = 0 THEN S
    ELSE ReachFrom(S \cup {cells[c] : c \in {d \in DOMAIN cells : d[1] \in S /\ cells[d] \in SegPtrs}},
                   n - 1)
Reachable == ReachFrom({root} \ {Null}, MaxSegments)

\* C7: a segment linked into the tree is still referenced by the cell it was
\* linked into, and reachable from the root.
C7_LinkedStaysLinked ==
    \A l \in links : InTree(l[1]) => (Load(l[1]) = l[2] /\ l[2] \in Reachable)

\* C7 witness: a segment was linked, and later calls linked further segments
\* and the collaborator stored an element.
C7_Witness ==
    /\ Cardinality(published) >= 3
    /\ \E c \in DOMAIN cells : cells[c] \in ElemPtrs

\* C8: Drop completes, having freed the published segments and nothing else.
C8_DropFreesSegments ==
    arrayState # "live" => (arrayState = "dropped" /\ freed = published)

\* the first k calls of the documented run were made one after the other and
\* have ended
DocCalls(k) ==
    /\ ~overlapped /\ calls = k /\ Len(log) = k
    /\ \A j \in 1..k : log[j].index = <<1, 59, 6>>[j]

\* C9: with segments of 8 cells, get(1) leaves height 0 and one leaf and returns
\* its cell 1; then get(59) puts an interior root above the leaf (branch 0),
\* raises the height to 1 and returns cell 3 of a new leaf under branch 7; then
\* get(6) allocates nothing and returns cell 6 of the first leaf.
C9_DocRun ==
    /\ DocCalls(1) =>
          /\ log[1].outcome = "ok" /\ height = 0 /\ nextSeg = 2
          /\ log[1].slot = <<root, 1>>
    /\ DocCalls(2) =>
          /\ log[2].outcome = "ok" /\ height = 1 /\ nextSeg = 4
          /\ Load(<<root, 0>>) = log[1].slot[1]
          /\ log[2].slot = <<Load(<<root, 7>>), 3>>
          /\ log[2].slot[1] \notin {Null, root, log[1].slot[1]}
    /\ DocCalls(3) =>
          /\ log[3].outcome = "ok" /\ height = 1 /\ nextSeg = 4
          /\ log[3].slot = <<log[1].slot[1], 6>>

\* -------------------------------------------------------------------- Cache
\* C10: f is called at most once for each key.
C10_FOncePerKey == \A k \in Keys : fRuns[k] <= 1

\* C10 witness: two threads called with the same absent key; one is running f
\* and the other, which also found the key absent, is at the entry that the
\* first one inserted.
C10_Witness ==
    \E t, u \in Callers :
        /\ t # u /\ ckey[t] = ckey[u]
        /\ cpc[t] = "in_f" /\ cpc[u] = "lock2"

\* the caller holds the write lock of inner and waits at value_lock.lock()
\* (line 61) for a value lock that a running f holds
WaitsUnderWriteLock(w) ==
    /\ cpc[w] = "lock2"
    /\ writer = w
    /\ mutexes[cvc[w]].holder # 0

\* C11: a call for one key is never held up by the calls in progress for
\* another key: no caller stands at self.inner.write() (line 57) for its key
\* while the write lock is held by a caller of a different key that waits for
\* that key's f to finish.
C11_OtherKeyNotBlocked ==
    \A w, v \in Callers :
        ~(/\ WaitsUnderWriteLock(w)
          /\ cpc[v] = "wlock"
          /\ ckey[v] # ckey[w])

\* C23: if every closure f terminates, every invocation of get_or_insert_with
\* returns: the lock of the map and the value locks never deadlock.
C23_EveryInvocationReturns ==
    \A t \in Callers : (cpc[t] # "idle") ~> (cpc[t] = "idle")

\* C23 witness: one caller holds the write lock of the map and waits for a
\* value lock whose holder runs f, while another invocation waits for the map.
C23_Witness ==
    \E w, v \in Callers :
        /\ w # v
        /\ WaitsUnderWriteLock(w)
        /\ cpc[v] \in {"rlock", "wlock"}

\* the value the map holds for a key (0: no entry, or None)
Stored(k) == IF map[k] = 0 THEN 0 ELSE mutexes[map[k]].value

\* C24: every invocation for a key returns the value of the one run of f for
\* that key, and that value is the one stored for the key: nothing is returned
\* before it is stored and it is not overwritten afterwards.
C24_ReturnsStoredValue ==
    \A r \in returns :
        /\ fRuns[r[1]] = 1
        /\ r[2] = FValue(r[1])
        /\ Stored(r[1]) = r[2]

\* C24 witness: three invocations for one key have returned, one of which ran
\* f, and all with the same value.
C24_Witness ==
    /\ ccalls >= 3
    /\ \A t \in Callers : cpc[t] = "idle"
    /\ Cardinality(returns) = 1

\* the number of links from the root to a segment (the root segment: 0);
\* -1 for a segment that does not hang from the root
RECURSIVE Depth(_)
Depth(s) ==
    IF \E l \in links : l[2] = s
      THEN LET c == (CHOOSE l \in links : l[2] = s)[1] IN
           IF c = RootCell THEN 0
           ELSE IF c[1] \in SegPtrs
                  THEN LET d == Depth(c[1]) IN IF d < 0 THEN 0 - 1 ELSE d + 1
                  ELSE 0 - 1
      ELSE 0 - 1

\* C14: the descent agrees with the height that belongs to the root: a cell is
\* returned only from a segment at the leaf depth, depth = height, and a child
\* is linked only below a segment above the leaves, depth < height, so that no
\* leaf is treated as interior and no interior segment as a leaf.
C14_DescentMatchesHeight ==
    /\ \A n \in Returned :
          Depth(log[n].slot[1]) >= 0 => Depth(log[n].slot[1]) = height
    /\ \A l \in links :
          (l[1] # RootCell /\ Depth(l[1][1]) >= 0) => Depth(l[1][1]) < height

\* C15: a growth step installs a new root that holds the old root at branch 0
\* and raises the height by one: once a call has returned a cell of the first
\* segment and a call for an index beyond that segment has ended, the root is
\* another segment with the first one at its branch 0, and the height is 1.
C15_GrowthStep ==
    \A m, n \in 1..Len(log) :
        (/\ m < n
         /\ log[m].outcome = "ok" /\ RequiredHeight(log[m].index) = 0
         /\ RequiredHeight(log[n].index) = 1)
        => /\ root # log[m].slot[1]
           /\ Load(<<root, 0>>) = log[m].slot[1]
           /\ height = 1

\* C16: no cell is both an element slot (returned by get) and a child pointer
\* (followed by get, or filled with a segment by it).
C16_CellKeepsRole ==
    \A n \in Returned :
        /\ \A l \in links : l[1] # log[n].slot
        /\ \A t \in Threads : parent[t] # log[n].slot

\* C17: get never writes to an element slot: the content of a returned slot
\* changes only when the collaborator puts an element in the empty slot.
C17_SlotsUntouched ==
    [][\A n \in Returned :
          Load(log[n].slot)' # Load(log[n].slot)
              => (Load(log[n].slot) = Null /\ Load(log[n].slot)' \in ElemPtrs)]_vars

\* C18: every call of get returns: a call for an index within the first
\* segment that has ended, ended by returning a cell, whatever the other calls
\* did to the cells on its way.
C18_EveryCallReturns ==
    \A n \in 1..Len(log) : log[n].index < SegmentSize => log[n].outcome = "ok"

\* the index was returned by a call that ended
AlreadyReturned(i) == \E n \in Returned : log[n].index = i

\* C19: once get(i) has returned, a later get(i) allocates and links nothing
\* and leaves root and height as they are (calls made one after the other).
C19_Idempotent ==
    [][(~overlapped /\ \E t \in Threads : pc[t] = "loop" /\ AlreadyReturned(index[t]))
          => (nextSeg' = nextSeg /\ links' = links /\ root' = root /\ height' = height)]_vars

\* C20: calls of get with different indices return different cells.
C20_DistinctSlots ==
    \A m, n \in Returned : log[m].index # log[n].index => log[m].slot # log[n].slot

\* C20 witness: calls for two different indices ran at the same time and both
\* returned.
C20_Witness ==
    /\ overlapped
    /\ \E m, n \in Returned : log[m].index # log[n].index

\* ------------------------------------------------------- FineGrainedListSet
\* the keys of the list, from head
RECURSIVE KeysFrom(_)
KeysFrom(n) == IF n = 0 THEN << >> ELSE <<nodes[n].data>> \o KeysFrom(nodes[n].next)

\* no call on the list set is running
ListQuiescent == \A t \in Threads : lpc[t] # "find_lock" /\ lpc[t] # "next_lock"
                                    /\ lpc[t] # "insert_lock"

\* C12: after any sequence of insert and remove the list from head is sorted
\* in strictly ascending key order, so without duplicate keys.
C12_SortedAscending ==
    ListQuiescent =>
        LET l == KeysFrom(head) IN \A i \in 1..(Len(l) - 1) : l[i] < l[i + 1]

\* the keys in the list
ListKeySet == {nodes[n].data : n \in 1..Len(nodes)}

\* the calls h[n..] give the results a mathematical set gives them, from S on
RECURSIVE RefAgrees(_, _, _)
RefAgrees(h, n, S) ==
    IF n > Len(h) THEN TRUE
    ELSE LET c == h[n] IN
         /\ c.result = IF c.op = "insert" THEN c.key \notin S ELSE c.key \in S
         /\ RefAgrees(h, n + 1,
                      IF c.op = "insert" THEN S \cup {c.key}
                      ELSE IF c.op = "remove" THEN S \ {c.key} ELSE S)

\* the calls that returned agree with a mathematical set, taken in the order
\* of their returns
ReturnedAgree == RefAgrees(history, 1, {})

\* the call of the thread ended without returning
EndedWithoutResult(t) == lpc[t] = "deadlocked" \/ lpc[t] = "panicked"

\* C21: the results of insert, remove and contains are those of a
\* mathematical set, and the calls have its effects: the calls that returned
\* agree with the set, and a remove(k) that ended has left k absent.
C21_MatchesReferenceSet ==
    /\ ReturnedAgree
    /\ \A t \in Threads :
          (lop[t] = "remove" /\ EndedWithoutResult(t)) => lkey[t] \notin ListKeySet

\* C22: every call returns: no call locks a mutex it already holds, and no
\* call has ended by blocking for ever or by a panic.
C22_NoSelfLock ==
    \A t \in Threads :
        /\ ~(lpc[t] = "relock" /\ holder[0] = t)
        /\ ~EndedWithoutResult(t)

\* ---------------------------------------------------------------------- Arc
NoHandles == \A t \in Owners : handles[t] = 0

\* C13: the value of an Arc is dropped exactly once, and only after the last
\* handle was dropped, however the clones and drops of the threads interleave.
C13_DroppedOnce ==
    /\ canary <= 1
    /\ (canary = 1 \/ \E t \in Owners : apc[t] = "drop_value") => NoHandles
    /\ (NoHandles /\ \A t \in Owners : apc[t] = "idle") => canary = 1

\* C13 witness: clones were made, every handle was dropped and the value with
\* the last one.
C13_Witness == clones >= 2 /\ NoHandles /\ canary = 1
====
